---- MODULE Spec2Model ----
(***************************************************************************)
(* PyBot: a retrieval-augmented chatbot (app/main.py, app/chatbot.py,      *)
(* app/embeddings.py, app/file_processor.py).                              *)
(*                                                                         *)
(* A string is a sequence of atoms; an atom is one character ("a", " ")    *)
(* or one fixed piece of text of the program ("Human: ").  Concatenation   *)
(* is \o, str.strip() is Strip.                                            *)
(*                                                                         *)
(* The external capabilities are modelled by their contract and by the     *)
(* outcomes the code distinguishes: the embedding model and the vector     *)
(* store either answer or raise, the language model either completes or    *)
(* raises.  The LLMChain + ConversationBufferMemory pair is modelled by    *)
(* the contract chatbot.py relies on: the chain loads the buffer into the  *)
(* chat_history slot, calls the language model, and on success saves       *)
(* (question, completion) to the buffer.                                   *)
(***************************************************************************)
EXTENDS Integers, Sequences, FiniteSets, TLC

VARIABLES
    messages,   \* ChatBot.chat_message_history.messages (chatbot.py:43)
    index,      \* the Qdrant collection: point id -> payload (embeddings.py:96)
    pc,         \* position of the one ChatBot.chat call in flight
    cur,        \* locals of ChatBot.chat and what happened during the call
    ret,        \* what the last caller-facing operation gave back to its caller
    ing,        \* what happened inside the last process_file_upload
    before,     \* history: messages when the last chat or clear_history call began
    log,        \* history: (question, completion) of the successful chats since clear
    ingested,   \* history: chunk texts written to the index so far
    caller      \* history: the browser session whose handler runs or ran last

vars == <<messages, index, pc, cur, ret, ing, before, log, ingested, caller>>

----------------------------------------------------------------------------
(* Bounds of the model *)

MaxExchanges == 2      \* chat calls are explored while the buffer holds fewer exchanges
memory_limit == 1      \* the memory_limit the ChatBot is constructed with
chunk_size == 3        \* CHUNK_SIZE given to the FileProcessor
chunk_overlap == 1     \* CHUNK_OVERLAP given to the FileProcessor
MaxTopK == 2           \* search_similar is called directly with top_k in 1..MaxTopK

(* Program constants *)
top_k == 5

----------------------------------------------------------------------------
(* Strings *)

Whitespace == {" ", "\n"}

RECURSIVE LStrip(_)
LStrip(s) ==
    IF s = <<>> THEN <<>>
    ELSE IF Head(s) \in Whitespace THEN LStrip(Tail(s)) ELSE s

RECURSIVE RStrip(_)
RStrip(s) ==
    IF s = <<>> THEN <<>>
    ELSE IF s[Len(s)] \in Whitespace THEN RStrip(SubSeq(s, 1, Len(s) - 1)) ELSE s

\* str.strip()
Strip(s) == RStrip(LStrip(s))

Digits == <<"0", "1", "2", "3", "4", "5", "6", "7", "8", "9">>

\* str(n) of a natural number
RECURSIVE Str(_)
Str(n) ==
    IF n < 10 THEN <<Digits[n + 1]>>
    ELSE Str(n \div 10) \o <<Digits[(n % 10) + 1]>>

StartsWith(s, p) == Len(s) >= Len(p) /\ SubSeq(s, 1, Len(p)) = p

\* sep.join(parts)
RECURSIVE Join(_, _)
Join(sep, parts) ==
    IF parts = <<>> THEN <<>>
    ELSE IF Len(parts) = 1 THEN parts[1]
    ELSE parts[1] \o sep \o Join(sep, Tail(parts))

----------------------------------------------------------------------------
(* Inputs *)

Questions == { <<"q">>, <<" ">> }

Completions == { <<"x">>, <<" ", "y", "\n">> }

\* the queries given to search_similar directly
Queries == { <<"q">>, <<"c", "c", "d">> }

LLMErrors == { <<"timeout">> }
EmbedErrors == { <<"encode failed">> }
StoreErrors == { <<"connection refused">> }
ReadErrors == { <<"codec can't decode">> }

\* where one run of an operation meets its first failure, if anywhere
NoFault == [at |-> "nowhere", cause |-> <<>>]
SearchFaults ==
    {NoFault} \cup {[at |-> "embed", cause |-> e] : e \in EmbedErrors}
              \cup {[at |-> "store", cause |-> e] : e \in StoreErrors}
IngestFaults ==
    SearchFaults \cup {[at |-> "read", cause |-> e] : e \in ReadErrors}

\* the browser sessions that use the one Gradio app
Sessions == {"s1", "s2"}

NoFile == [name |-> <<>>, content |-> <<>>, present |-> FALSE]

Files ==
    { [name |-> <<"d.txt">>, content |-> c, present |-> TRUE] :
        c \in { <<"a", "b">>, <<"b", "a">>, <<"a", "b", "c", "d", "e">>,
                <<"c", "d", "e">>, <<" ">> } }

----------------------------------------------------------------------------
(* FileProcessor (file_processor.py) *)

Min(a, b) == IF a <= b THEN a ELSE b

\* The splitter's hard character split: windows of chunk_size characters,
\* each starting chunk_size - chunk_overlap after the previous one; every
\* piece is stripped and an empty piece is dropped.
RECURSIVE Windows(_, _)
Windows(text, start) ==
    LET end == Min(start + chunk_size - 1, Len(text))
        piece == Strip(SubSeq(text, start, end))
        rest == IF end >= Len(text) THEN <<>>
                ELSE Windows(text, start + (chunk_size - chunk_overlap))
    IN  IF piece = <<>> THEN rest ELSE <<piece>> \o rest

\* self.text_splitter.split_text(content)
split_text(content) == Windows(content, 1)

\* FileProcessor.process_text_content: (chunks, metadata)
process_text_content(content, filename) ==
    LET chunks == split_text(content)
    IN  [chunks |-> chunks,
         metadata |-> [filename |-> filename,
                       total_chunks |-> Len(chunks),
                       total_chars |-> Len(content)]]

----------------------------------------------------------------------------
(* EmbeddingManager (embeddings.py) *)

NoError == <<>>

Alphabet == <<"a", "b", "c", "d", "e", "q">>

CountOf(c, text) == Cardinality({i \in 1..Len(text) : text[i] = c})

\* embedding_model.encode: a fixed-length vector that depends on the text only
Encode(text) == [i \in 1..Len(Alphabet) |-> CountOf(Alphabet[i], text)]

RECURSIVE Dot(_, _, _)
Dot(u, v, i) == IF i = 0 THEN 0 ELSE u[i] * v[i] + Dot(u, v, i - 1)

\* the store's similarity of a query vector and a record vector
Score(u, v) == Dot(u, v, Len(u))

CharCode(c) ==
    CASE c = "a" -> 97 [] c = "b" -> 98 [] c = "c" -> 99 [] c = "d" -> 100
      [] c = "e" -> 101 [] c = "q" -> 113 [] c = " " -> 32 [] OTHER -> 10

\* int(hashlib.md5(text.encode()).hexdigest()[:8], 16): a digest of the text
\* alone, many-to-one ("ab" and "ba" collide here).
RECURSIVE TextHash(_)
TextHash(text) ==
    IF text = <<>> THEN 0 ELSE CharCode(Head(text)) + TextHash(Tail(text))

\* the id add_documents gives the point built from texts[idx]
PointIdByPosition(idx, text) == TextHash(text) + idx
PointId(idx, text) == TextHash(text)

\* the metadatas process_file_upload builds, one per chunk (chunk_index from 0)
Metadatas(chunks, metadata) ==
    [i \in 1..Len(chunks) |->
        [filename |-> metadata.filename,
         chunk_index |-> i - 1,
         total_chunks |-> metadata.total_chunks]]

\* the points add_documents prepares: payload = metadata plus the text
Points(texts, metadatas) ==
    [i \in 1..Len(texts) |->
        [id |-> PointId(i - 1, texts[i]),
         vector |-> Encode(texts[i]),
         payload |-> [text |-> texts[i],
                      filename |-> metadatas[i].filename,
                      chunk_index |-> metadatas[i].chunk_index,
                      total_chunks |-> metadatas[i].total_chunks]]]

EmptyIndex == [i \in {} |-> 0]

\* a store that keeps only the records of the last batch
UpsertReplacesAll(ix, points) ==
    LET ids == {points[i].id : i \in 1..Len(points)}
        last(d) == CHOOSE i \in 1..Len(points) :
                      /\ points[i].id = d
                      /\ \A j \in 1..Len(points) : points[j].id = d => j <= i
    IN  [d \in ids |->
            [vector |-> points[last(d)].vector, payload |-> points[last(d)].payload]]
\* client.upsert: a record whose id exists is replaced, the last point of a
\* batch with a repeated id wins
Upsert(ix, points) ==
    LET ids == {points[i].id : i \in 1..Len(points)}
        last(d) == CHOOSE i \in 1..Len(points) :
                      /\ points[i].id = d
                      /\ \A j \in 1..Len(points) : points[j].id = d => j <= i
    IN  [d \in (DOMAIN ix) \cup ids |->
            IF d \in ids
            THEN [vector |-> points[last(d)].vector, payload |-> points[last(d)].payload]
            ELSE ix[d]]

\* EmbeddingManager.add_documents: the index afterwards, and whether it raised
AddDocumentsSwallow(ix, texts, metadatas, embedErr, storeErr) ==
    IF texts = <<>> THEN [index |-> ix, raised |-> FALSE, cause |-> NoError]
    ELSE IF embedErr # NoError THEN [index |-> ix, raised |-> TRUE, cause |-> embedErr]
    ELSE IF storeErr # NoError THEN [index |-> ix, raised |-> FALSE, cause |-> NoError]
    ELSE [index |-> Upsert(ix, Points(texts, metadatas)),
          raised |-> FALSE, cause |-> NoError]
add_documents(ix, texts, metadatas, embedErr, storeErr) ==
    IF texts = <<>> THEN [index |-> ix, raised |-> FALSE, cause |-> NoError]
    ELSE IF embedErr # NoError THEN [index |-> ix, raised |-> TRUE, cause |-> embedErr]
    ELSE IF storeErr # NoError THEN [index |-> ix, raised |-> TRUE, cause |-> storeErr]
    ELSE [index |-> Upsert(ix, Points(texts, metadatas)),
          raised |-> FALSE, cause |-> NoError]

\* client.search: the ids of the records, best score first (ties by id),
\* at most limit of them
RECURSIVE Ranked(_, _, _, _)
Ranked(ix, qv, ids, limit) ==
    IF ids = {} \/ limit = 0 THEN <<>>
    ELSE LET best == CHOOSE d \in ids : \A e \in ids :
                        \/ Score(qv, ix[d].vector) > Score(qv, ix[e].vector)
                        \/ (Score(qv, ix[d].vector) = Score(qv, ix[e].vector) /\ d <= e)
         IN  <<best>> \o Ranked(ix, qv, ids \ {best}, limit - 1)

\* what self.client.search gives search_similar (nothing when it raises)
client_search(ix, query, k, storeErr) ==
    IF storeErr # NoError THEN <<>>
    ELSE Ranked(ix, Encode(query), DOMAIN ix, k)

\* EmbeddingManager.search_similar once the query is embedded: [] when the
\* store raises, else one result per hit, in the store's order
SearchResultsReversed(ix, query, k, storeErr) ==
    IF storeErr # NoError THEN <<>>
    ELSE LET qv == Encode(query)
             hits == Ranked(ix, qv, DOMAIN ix, k)
             n == Len(hits)
         IN  [i \in 1..n |->
                [text |-> ix[hits[n + 1 - i]].payload.text,
                 score |-> Score(qv, ix[hits[n + 1 - i]].vector),
                 metadata |-> [filename |-> ix[hits[n + 1 - i]].payload.filename,
                               chunk_index |-> ix[hits[n + 1 - i]].payload.chunk_index,
                               total_chunks |-> ix[hits[n + 1 - i]].payload.total_chunks]]]
search_results(ix, query, k, storeErr) ==
    IF storeErr # NoError THEN <<>>
    ELSE LET qv == Encode(query)
             hits == Ranked(ix, qv, DOMAIN ix, k)
         IN  [i \in 1..Len(hits) |->
                [text |-> ix[hits[i]].payload.text,
                 score |-> Score(qv, ix[hits[i]].vector),
                 metadata |-> [filename |-> ix[hits[i]].payload.filename,
                               chunk_index |-> ix[hits[i]].payload.chunk_index,
                               total_chunks |-> ix[hits[i]].payload.total_chunks]]]

----------------------------------------------------------------------------
(* ChatBot (chatbot.py) *)

Human(content) == [type |-> "human", content |-> content]
AI(content) == [type |-> "ai", content |-> content]

\* the buffer of ConversationBufferMemory(return_messages=False) as a string:
\* one "Human: ..." / "AI: ..." line per message
BufferLine(m) == (IF m.type = "human" THEN <<"Human: ">> ELSE <<"AI: ">>) \o m.content

load_memory_variables(msgs) ==
    Join(<<"\n">>, [i \in 1..Len(msgs) |-> BufferLine(msgs[i])])

NoPreviousConversation == <<"No previous conversation.">>

\* ChatBot.format_chat_history
format_chat_history(msgs) ==
    LET chat_history == load_memory_variables(msgs)
    IN  IF chat_history = <<>> THEN NoPreviousConversation ELSE chat_history

NoRelevantInformation == <<"No relevant information found in the database.">>

\* ChatBot.retrieve_context once search_similar has returned results
RetrieveContextNoSentinel(results) ==
    Join(<<"\n\n">>,
         [i \in 1..Len(results) |-> <<"[">> \o Str(i) \o <<"] ">> \o results[i].text])
RetrieveContextFromZero(results) ==
    IF results = <<>> THEN NoRelevantInformation
    ELSE Join(<<"\n\n">>,
              [i \in 1..Len(results) |-> <<"[">> \o Str(i - 1) \o <<"] ">> \o results[i].text])
retrieve_context(results) ==
    IF results = <<>> THEN NoRelevantInformation
    ELSE Join(<<"\n\n">>,
              [i \in 1..Len(results) |-> <<"[">> \o Str(i) \o <<"] ">> \o results[i].text])

\* self.prompt_template with its three slots filled
prompt_template(context, chat_history, question) ==
    <<"You are an intelligent AI assistant. Please answer the question based on the provided context and previous conversation history.\n\nContext:\n">> \o context
    \o <<"\n\nPrevious Conversation:\n">> \o chat_history
    \o <<"\n\nCurrent Question: ">> \o question
    \o <<"\n\nPlease provide a detailed and accurate answer based on the context and conversation history above. If the context does not contain relevant information, please say that you don't have the information to answer.\n\nAnswer:">>

\* the prompt of the use_context=False branch
simple_prompt(chat_history, question) ==
    <<"Previous Conversation:\n">> \o chat_history
    \o <<"\n\nCurrent Question: ">> \o question
    \o <<"\n\nAnswer:">>

\* what fills the history slot of the prompt: the chain's memory in context
\* mode, format_chat_history() otherwise
history_slot(use_context, msgs) ==
    IF use_context THEN load_memory_variables(msgs) ELSE format_chat_history(msgs)

\* memory.save_context({"input": question}, {"output": response}), and what
\* the chain does with its memory after a successful run
SaveContextFront(msgs, question, response) ==
    <<Human(question), AI(response)>> \o msgs
save_context(msgs, question, response) ==
    msgs \o <<Human(question), AI(response)>>

\* what memory holds after a chat call that failed: the except branch of
\* ChatBot.chat returns without touching memory
MemoryAfterFailureAppends(msgs, question, error_msg) ==
    msgs \o <<Human(question), AI(error_msg)>>
memory_after_failure(msgs, question, error_msg) == msgs

ErrorPrefix == <<"Error processing question: ">>

\* error_msg = f"Error processing question: {str(e)}"
ErrorAnswerBare(cause) == cause
error_msg(cause) == ErrorPrefix \o cause

\* ChatBot.clear_history: memory.clear() and chat_message_history.clear()
ClearKeepsLast(msgs) == IF Len(msgs) > 2 THEN SubSeq(msgs, Len(msgs) - 1, Len(msgs)) ELSE <<>>
cleared(msgs) == <<>>

\* ChatBot.get_history
get_history(msgs) ==
    LET starts == {i \in 1..Len(msgs) : i % 2 = 1 /\ i + 1 <= Len(msgs)}
    IN  [k \in 1..Cardinality(starts) |->
            [question |-> msgs[2 * k - 1].content, response |-> msgs[2 * k].content]]

\* the conversation history that browser session s talks to: main.py builds
\* one ChatBot at import (main.py:22) and every handler call uses it
session_history(s, msgs) == get_history(msgs)

----------------------------------------------------------------------------
(* State *)

NoCall ==
    [question |-> <<>>, use_context |-> FALSE, context |-> <<>>,
     chat_history |-> <<>>, prompt |-> <<>>, response |-> <<>>,
     cause |-> NoError, llm_calls |-> 0,
     embed_failed |-> FALSE, search_failed |-> FALSE, llm_failed |-> FALSE,
     top_k |-> 0, hits |-> <<>>, results |-> <<>>,
     embed_calls |-> 0, search_calls |-> 0]

NoReturn == [op |-> "none", kind |-> "none", raised |-> FALSE, text |-> <<>>]

NoIngest ==
    [content |-> <<>>, chunks |-> <<>>, read_failed |-> FALSE, embed_failed |-> FALSE,
     store_failed |-> FALSE, add_raised |-> FALSE,
     embed_calls |-> 0, upsert_calls |-> 0,
     ids_before |-> {}, known_before |-> {}]

Init ==
    /\ messages = <<>>
    /\ index = EmptyIndex
    /\ pc = "idle"
    /\ cur = NoCall
    /\ ret = NoReturn
    /\ ing = NoIngest
    /\ before = <<>>
    /\ log = <<>>
    /\ ingested = {}
    /\ caller = "s1"

----------------------------------------------------------------------------
(* ChatBot.chat(question, use_context), one stage per action *)

\* the first stage of ChatBot.chat: if use_context: retrieve, else generate
AlwaysRetrieve(use_context) == "retrieving"
NeverRetrieve(use_context) == "generating"
first_stage(use_context) == IF use_context THEN "retrieving" ELSE "generating"

\* entry of ChatBot.chat, called on behalf of browser session s
ChatBegin(s, question, use_context) ==
    /\ pc = "idle"
    /\ Len(messages) < 2 * MaxExchanges
    /\ cur' = [NoCall EXCEPT !.question = question, !.use_context = use_context]
    /\ pc' = first_stage(use_context)
    /\ caller' = s
    /\ before' = messages
    /\ ret' = NoReturn
    /\ ing' = NoIngest
    /\ UNCHANGED <<messages, index, log, ingested>>

\* a caller of the ChatBot class: chat(question, use_context)
chat(S) == \E s \in S, question \in Questions, use_context \in BOOLEAN :
            ChatBegin(s, question, use_context)

\* main.chat_with_bot(message, history): a blank message returns at once,
\* any other calls chatbot.chat(message, use_context=True)
chat_with_bot(S) ==
    \E s \in S, message \in Questions :
        IF Strip(message) = <<>>
        THEN /\ pc = "idle"
             /\ caller' = s
             /\ ret' = [op |-> "chat_with_bot", kind |-> "unchanged",
                        raised |-> FALSE, text |-> <<>>]
             /\ cur' = NoCall
             /\ ing' = NoIngest
             /\ UNCHANGED <<messages, index, pc, before, log, ingested>>
        ELSE ChatBegin(s, message, TRUE)

\* retrieve_context(question): search_similar embeds the query outside its
\* try block (embeddings.py:118), queries the store inside it (121-139)
Retrieve ==
    /\ pc = "retrieving"
    /\ \E fault \in SearchFaults :
          LET embedErr == IF fault.at = "embed" THEN fault.cause ELSE NoError
              storeErr == IF fault.at = "store" THEN fault.cause ELSE NoError
          IN
          IF embedErr # NoError
          THEN /\ cur' = [cur EXCEPT !.cause = embedErr, !.embed_failed = TRUE,
                                      !.top_k = top_k, !.embed_calls = @ + 1]
               /\ pc' = "failed"
          ELSE /\ cur' = [cur EXCEPT
                            !.context = retrieve_context(
                                search_results(index, cur.question, top_k, storeErr)),
                            !.search_failed = (storeErr # NoError),
                            !.top_k = top_k,
                            !.hits = client_search(index, cur.question, top_k, storeErr),
                            !.results = search_results(index, cur.question, top_k, storeErr),
                            !.embed_calls = @ + 1,
                            !.search_calls = @ + 1]
               /\ pc' = "generating"
    /\ UNCHANGED <<messages, index, ret, ing, before, log, ingested, caller>>

\* self.chain.run(context, question) up to the completion, or
\* self.llm(simple_prompt): the one language-model call
Generate ==
    /\ pc = "generating"
    /\ LET chat_history == history_slot(cur.use_context, messages)
           prompt == IF cur.use_context
                     THEN prompt_template(cur.context, chat_history, cur.question)
                     ELSE simple_prompt(chat_history, cur.question)
           called == [cur EXCEPT !.chat_history = chat_history, !.prompt = prompt,
                                 !.llm_calls = @ + 1]
       IN  \/ \E response \in Completions :
                /\ cur' = [called EXCEPT !.response = response]
                /\ pc' = "updating"
           \/ \E e \in LLMErrors :
                /\ cur' = [called EXCEPT !.cause = e, !.llm_failed = TRUE]
                /\ pc' = "failed"
    /\ UNCHANGED <<messages, index, ret, ing, before, log, ingested, caller>>

\* the memory update after a completion, then return response.strip()
Update ==
    /\ pc = "updating"
    /\ messages' = save_context(messages, cur.question, cur.response)
    /\ log' = Append(log, [question |-> cur.question, response |-> cur.response])
    /\ ret' = [op |-> "chat", kind |-> "answer", raised |-> FALSE,
               text |-> Strip(cur.response)]
    /\ pc' = "idle"
    /\ UNCHANGED <<index, cur, ing, before, ingested, caller>>

\* except Exception as e: return error_msg
Failed ==
    /\ pc = "failed"
    /\ LET msg == error_msg(cur.cause)
       IN  /\ messages' = memory_after_failure(messages, cur.question, msg)
           /\ ret' = [op |-> "chat", kind |-> "error", raised |-> FALSE, text |-> msg]
    /\ pc' = "idle"
    /\ UNCHANGED <<index, cur, ing, before, log, ingested, caller>>

\* ChatBot.clear_history, which main.clear_chat calls
clear_history(S) ==
    /\ pc = "idle"
    /\ \E s \in S : caller' = s
    /\ messages' = cleared(messages)
    /\ log' = <<>>
    /\ ret' = [op |-> "clear_history", kind |-> "done", raised |-> FALSE, text |-> <<>>]
    /\ cur' = NoCall
    /\ ing' = NoIngest
    /\ before' = messages
    /\ UNCHANGED <<index, pc, ingested>>

\* EmbeddingManager.search_similar(query, top_k) called directly (it is what
\* the retriever of get_retriever calls): an embedding failure raises to the
\* caller, a store failure gives []
search_similar(S) ==
    /\ pc = "idle"
    /\ \E s \in S : caller' = s
    /\ \E query \in Queries, k \in 1..MaxTopK, fault \in SearchFaults :
          LET embedErr == IF fault.at = "embed" THEN fault.cause ELSE NoError
              storeErr == IF fault.at = "store" THEN fault.cause ELSE NoError
          IN
          IF embedErr # NoError
          THEN /\ cur' = [NoCall EXCEPT !.question = query, !.top_k = k,
                                         !.cause = embedErr, !.embed_failed = TRUE,
                                         !.embed_calls = 1]
               /\ ret' = [op |-> "search_similar", kind |-> "raised",
                          raised |-> TRUE, text |-> embedErr]
          ELSE /\ cur' = [NoCall EXCEPT
                            !.question = query, !.top_k = k,
                            !.search_failed = (storeErr # NoError),
                            !.hits = client_search(index, query, k, storeErr),
                            !.results = search_results(index, query, k, storeErr),
                            !.embed_calls = 1, !.search_calls = 1]
               /\ ret' = [op |-> "search_similar", kind |-> "results",
                          raised |-> FALSE, text |-> <<>>]
    /\ ing' = NoIngest
    /\ UNCHANGED <<messages, index, pc, before, log, ingested>>

----------------------------------------------------------------------------
(* main.process_file_upload(file) *)

\* the status texts of process_file_upload, after their leading mark
UploadOkPrefix == <<"Successfully processed and saved file '">>

UploadOk(filename, metadata) ==
    UploadOkPrefix \o filename
    \o <<"'!\n- Number of chunks: ">> \o Str(metadata.total_chunks)
    \o <<"\n- Total characters: ">> \o Str(metadata.total_chars)

UploadErrorPrefix == <<"Error processing file: ">>

process_file_upload(S) ==
    /\ pc = "idle"
    /\ \E s \in S : caller' = s
    /\ \E file \in Files \cup {NoFile}, fault \in IngestFaults :
          LET readErr == IF fault.at = "read" THEN fault.cause ELSE NoError
              embedErr == IF fault.at = "embed" THEN fault.cause ELSE NoError
              storeErr == IF fault.at = "store" THEN fault.cause ELSE NoError
          IN
          IF ~file.present
          THEN /\ ret' = [op |-> "process_file_upload", kind |-> "no_file",
                          raised |-> FALSE, text |-> <<"Please select a file to upload.">>]
               /\ ing' = NoIngest
               /\ UNCHANGED <<index, ingested>>
          ELSE IF readErr # NoError
          THEN /\ ret' = [op |-> "process_file_upload", kind |-> "error",
                          raised |-> FALSE, text |-> UploadErrorPrefix \o readErr]
               /\ ing' = [NoIngest EXCEPT !.read_failed = TRUE]
               /\ UNCHANGED <<index, ingested>>
          ELSE LET p == process_text_content(file.content, file.name)
                   metadatas == Metadatas(p.chunks, p.metadata)
                   a == add_documents(index, p.chunks, metadatas, embedErr, storeErr)
                   reached_embed == p.chunks # <<>>
                   reached_store == reached_embed /\ embedErr = NoError
                   written == reached_store /\ storeErr = NoError
               IN  /\ index' = a.index
                   /\ ingested' = IF written
                                  THEN ingested \cup {p.chunks[i] : i \in 1..Len(p.chunks)}
                                  ELSE ingested
                   /\ ing' = [content |-> file.content,
                              chunks |-> p.chunks, read_failed |-> FALSE,
                              embed_calls |-> IF reached_embed THEN 1 ELSE 0,
                              upsert_calls |-> IF reached_store THEN 1 ELSE 0,
                              embed_failed |-> reached_embed /\ embedErr # NoError,
                              store_failed |-> reached_store /\ storeErr # NoError,
                              add_raised |-> a.raised,
                              ids_before |-> DOMAIN index,
                              known_before |-> ingested]
                   /\ ret' = IF a.raised
                             THEN [op |-> "process_file_upload", kind |-> "error",
                                   raised |-> FALSE, text |-> UploadErrorPrefix \o a.cause]
                             ELSE [op |-> "process_file_upload", kind |-> "ok",
                                   raised |-> FALSE,
                                   text |-> UploadOk(file.name, p.metadata)]
    /\ cur' = NoCall
    /\ UNCHANGED <<messages, pc, before, log>>

----------------------------------------------------------------------------

\* the caller-facing operations, called on behalf of the sessions S
Handlers(S) ==
    \/ chat(S)
    \/ chat_with_bot(S)
    \/ clear_history(S)
    \/ search_similar(S)
    \/ process_file_upload(S)

\* the stages of the chat call in flight
Stages ==
    \/ Retrieve
    \/ Generate
    \/ Update
    \/ Failed

\* one browser session, one call at a time
Next == Handlers({"s1"}) \/ Stages

Spec == Init /\ [][Next]_vars

\* the conversation of one browser session (the index stays as it is: no
\* upload).  chat is synchronous: once called, each stage runs as soon as
\* the one before it has returned or raised.
NextChat ==
    \/ chat({"s1"})
    \/ chat_with_bot({"s1"})
    \/ clear_history({"s1"})
    \/ Stages

SpecChat == Init /\ [][NextChat]_vars /\ WF_vars(Stages)

\* ChatBot.chat interrupted: an exception that "except Exception" does not
\* catch (KeyboardInterrupt, a cancellation) leaves chat where it is raised.
\* Nothing in chat undoes the memory update, which adds the question message
\* and then the answer message to the message list; an interruption in the
\* updating stage finds none, one or both of them added.
Cancel ==
    /\ pc # "idle"
    /\ \/ messages' = messages
       \/ /\ pc = "updating"
          /\ messages' = messages \o <<Human(cur.question)>>
       \/ /\ pc = "updating"
          /\ messages' = save_context(messages, cur.question, cur.response)
    /\ ret' = [op |-> "chat", kind |-> "cancelled", raised |-> TRUE, text |-> <<>>]
    /\ pc' = "idle"
    /\ UNCHANGED <<index, cur, ing, before, log, ingested, caller>>

\* the conversation of one browser session, whose chat calls may be
\* interrupted (the index stays as it is: no upload)
NextCancel == NextChat \/ Cancel

SpecCancel == Init /\ [][NextCancel]_vars

\* several browser sessions on the one app, their calls one at a time
NextSessions == Handlers(Sessions) \/ Stages

SpecSessions == Init /\ [][NextSessions]_vars

----------------------------------------------------------------------------
(* Properties *)

ChatReturned == pc = "idle" /\ ret.op = "chat"

\* C1: when the language-model call fails during ChatBot.chat, in either
\* mode, chat does not raise: it returns "Error processing question: "
\* followed by the cause of the failure.
C1_LLMFailureGivesErrorAnswer ==
    (ChatReturned /\ cur.llm_failed) =>
        /\ ~ret.raised
        /\ StartsWith(ret.text, ErrorPrefix)
        /\ ret.text = ErrorPrefix \o cur.cause

C1_Witness ==
    ChatReturned /\ cur.llm_failed /\ ~cur.use_context /\ ret.kind = "error"

\* C2: a chat call that returns an error answer leaves the exchanges that
\* get_history returns as they were before the call.
C2_FailedAskKeepsMemory ==
    (ChatReturned /\ ret.kind = "error") =>
        get_history(messages) = get_history(before)

C2_Witness ==
    ChatReturned /\ ret.kind = "error" /\ cur.use_context /\ Len(before) = 2

\* C3 (as claimed): the retained history never holds more than memory_limit
\* exchanges.
C3_HistoryWithinMemoryLimit ==
    Len(get_history(messages)) <= memory_limit

\* C4: the ids of the index are the digests of the chunk texts written so
\* far, one per digest whatever position or file a text came from, and an
\* ingest of texts that were all written before leaves the set of ids as it
\* was.
C4_IdempotentIngest ==
    /\ DOMAIN index = {TextHash(t) : t \in ingested}
    /\ Cardinality(DOMAIN index) <= Cardinality(ingested)
    /\ (/\ ret.op = "process_file_upload"
        /\ ret.kind = "ok"
        /\ \A i \in 1..Len(ing.chunks) : ing.chunks[i] \in ing.known_before)
       => DOMAIN index = ing.ids_before

C4_Witness ==
    /\ ret.op = "process_file_upload"
    /\ ret.kind = "ok"
    /\ Len(ing.chunks) = 2
    /\ \A i \in 1..Len(ing.chunks) : ing.chunks[i] \in ing.known_before
    /\ Cardinality(DOMAIN index) < Cardinality(ingested)

\* C5 (as claimed): when retrieval fails during a use_context=True chat,
\* whether embedding the query or querying the store, the context is the
\* "no relevant information" sentinel, the language model is still called,
\* and its completion is returned as the answer.
C5_RetrievalFailureDoesNotBlock ==
    (ChatReturned /\ cur.use_context /\ (cur.embed_failed \/ cur.search_failed)) =>
        /\ cur.context = NoRelevantInformation
        /\ cur.llm_calls = 1
        /\ (~cur.llm_failed => ret.kind = "answer")

\* C6: when the store fails while add_documents writes, add_documents
\* raises and process_file_upload reports the failure, not the success
\* status with its counts.
C6_IngestFailureReported ==
    (ret.op = "process_file_upload" /\ ing.store_failed) =>
        /\ ing.add_raised
        /\ ret.kind = "error"
        /\ StartsWith(ret.text, UploadErrorPrefix)
        /\ ~StartsWith(ret.text, UploadOkPrefix)

C6_Witness ==
    ret.op = "process_file_upload" /\ ing.store_failed /\ Len(ing.chunks) = 2

\* C7 (as claimed): a successful chat appends exactly one exchange, the
\* question with the trimmed answer that chat returned.
C7_MemoryHoldsTrimmedAnswer ==
    (ChatReturned /\ ret.kind = "answer") =>
        messages = before \o <<Human(cur.question), AI(ret.text)>>

\* C8 (as claimed): every chat call invokes the language model exactly once.
C8_ExactlyOneLLMCall ==
    ChatReturned => cur.llm_calls = 1

C10_ClearRestoresInitialState ==
    /\ ret.op = "clear_history" =>
          /\ messages = <<>>
          /\ get_history(messages) = <<>>
          /\ format_chat_history(messages) = NoPreviousConversation
    /\ (pc \in {"updating", "failed"} /\ cur.llm_calls = 1 /\ log = <<>>) =>
          cur.chat_history = IF cur.use_context THEN <<>> ELSE NoPreviousConversation

C10_Witness ==
    ret.op = "clear_history" /\ Len(before) = 4

\* cur describes a ChatBot.chat call: the one in flight, or the last
\* operation made
InChat == pc # "idle" \/ ret.op = "chat"

\* C11 (as claimed): a chat call whose question is empty or whitespace-only
\* makes no embedding call, no vector-store call and no language-model call,
\* and leaves memory as it was.
C11_BlankQuestionRejected ==
    (ChatReturned /\ Strip(cur.question) = <<>>) =>
        /\ cur.embed_calls = 0
        /\ cur.search_calls = 0
        /\ cur.llm_calls = 0
        /\ messages = before

\* C12 (as claimed): an upload whose document is empty or whitespace-only
\* makes no embedding call and no store write, leaves the index as it was,
\* and is not reported as a successful ingest.
C12_BlankDocumentRejected ==
    (ret.op = "process_file_upload" /\ Strip(ing.content) = <<>>) =>
        /\ ing.embed_calls = 0
        /\ ing.upsert_calls = 0
        /\ DOMAIN index = ing.ids_before
        /\ ret.kind # "ok"

\* C13 (as claimed): after a chat call that was interrupted, at whatever
\* stage, memory is what it was before the call; in particular it holds no
\* question without its answer.
C13_CancelledAskKeepsMemory ==
    (pc = "idle" /\ ret.kind = "cancelled") =>
        /\ messages = before
        /\ Len(messages) % 2 = 0

\* C14 (as claimed): a chat or clear_history made by one session never
\* changes the conversation history of another session.
C14_SessionIsolation ==
    [][\A s \in Sessions :
          s # caller' => session_history(s, messages') = session_history(s, messages)]_vars

\* cur holds the outcome of a search that reached the store, and the index
\* is still the one that was searched
Searched == (InChat \/ ret.op = "search_similar") /\ cur.search_calls = 1

\* C15: a search of an index with no records gives the empty sequence, not
\* an error; retrieve_context turns it into the fixed sentinel, and the
\* sentinel is the context in the prompt given to the language model.
C15_EmptyIndexGivesSentinel ==
    (Searched /\ ~cur.search_failed /\ index = EmptyIndex) =>
        /\ cur.results = <<>>
        /\ ~cur.embed_failed
        /\ InChat => cur.context = NoRelevantInformation
        /\ (InChat /\ cur.llm_calls = 1) =>
              \E i \in 1..Len(cur.prompt) : cur.prompt[i] = NoRelevantInformation[1]

C15_Witness ==
    /\ pc = "updating"
    /\ cur.use_context
    /\ cur.search_calls = 1
    /\ ~cur.search_failed
    /\ index = EmptyIndex

\* C16: search_similar returns at most top_k results, their scores never
\* increase along the sequence, and they are the store's hits one for one,
\* in the store's order.
C16_ResultsRankedAndBounded ==
    Searched =>
        /\ Len(cur.results) <= cur.top_k
        /\ \A i \in 1..(Len(cur.results) - 1) :
              cur.results[i].score >= cur.results[i + 1].score
        /\ Len(cur.results) = Len(cur.hits)
        /\ \A i \in 1..Len(cur.hits) :
              /\ cur.results[i].text = index[cur.hits[i]].payload.text
              /\ cur.results[i].score = Score(Encode(cur.question), index[cur.hits[i]].vector)
        /\ \A i, j \in 1..Len(cur.hits) : i # j => cur.hits[i] # cur.hits[j]

C16_Witness ==
    /\ ret.op = "search_similar"
    /\ cur.search_calls = 1
    /\ Cardinality(DOMAIN index) > cur.top_k
    /\ Len(cur.results) = 2
    /\ cur.results[1].score > cur.results[2].score

\* what one step may do to the stage of the chat call and to memory
StageStep ==
    \/ pc' = pc /\ pc = "idle"
    \/ pc = "idle" /\ pc' = "retrieving" /\ cur'.use_context /\ messages' = messages
    \/ pc = "idle" /\ pc' = "generating" /\ ~cur'.use_context /\ messages' = messages
    \/ /\ pc = "retrieving" /\ pc' = "generating"
       /\ cur'.embed_calls = 1 /\ cur'.search_calls = 1 /\ cur'.llm_calls = 0
       /\ messages' = messages /\ ret' = NoReturn
    \/ /\ pc = "retrieving" /\ pc' = "failed"
       /\ cur'.llm_calls = 0 /\ messages' = messages /\ ret' = NoReturn
    \/ /\ pc = "generating" /\ pc' = "updating"
       /\ cur'.llm_calls = 1 /\ ~cur'.llm_failed
       /\ messages' = messages /\ ret' = NoReturn
    \/ /\ pc = "generating" /\ pc' = "failed"
       /\ cur'.llm_calls = 1 /\ cur'.llm_failed
       /\ messages' = messages /\ ret' = NoReturn
    \/ /\ pc = "updating" /\ pc' = "idle"
       /\ Len(messages') = Len(messages) + 2
       /\ ret'.op = "chat" /\ ret'.kind = "answer"
    \/ /\ pc = "failed" /\ pc' = "idle"
       /\ messages' = messages
       /\ ret'.op = "chat" /\ ret'.kind = "error"

\* C17: a chat call goes idle -> retrieving -> generating -> updating ->
\* idle (retrieval done before the one language-model call, the append only
\* after a completion, the answer returned with the append), or leaves for
\* failed at a stage error and returns from there without an updating step;
\* either way the call comes back to idle, where the next chat is served.
C17_StageOrdering ==
    /\ [][StageStep]_vars
    /\ (pc # "idle") ~> (pc = "idle")

C17_Witness ==
    /\ pc = "updating"
    /\ cur.use_context
    /\ cur.search_calls = 1
    /\ cur.llm_calls = 1
    /\ Len(before) = 2

\* C18 (as claimed): the history slot of the prompt given to the language
\* model is what format_chat_history returns for memory at that moment, in
\* both modes.
C18_HistorySlotIsRenderedMemory ==
    (pc \in {"updating", "failed"} /\ cur.llm_calls = 1) =>
        cur.chat_history = format_chat_history(messages)

\* the pieces of a string between its blank-line separators
RECURSIVE Blocks(_)
Blocks(str) ==
    IF \A i \in 1..Len(str) : str[i] # "\n\n" THEN <<str>>
    ELSE LET i == CHOOSE k \in 1..Len(str) :
                    str[k] = "\n\n" /\ \A j \in 1..(k - 1) : str[j] # "\n\n"
         IN  <<SubSeq(str, 1, i - 1)>> \o Blocks(SubSeq(str, i + 1, Len(str)))

\* C19: for n > 0 search results the context is n blocks separated by blank
\* lines, block i being "[i] " followed by the text of the i-th result.
C19_ContextPreservesRank ==
    (InChat /\ cur.search_calls = 1 /\ cur.results # <<>>) =>
        LET blocks == Blocks(cur.context)
        IN  /\ Len(blocks) = Len(cur.results)
            /\ \A i \in 1..Len(blocks) :
                  blocks[i] = <<"[", Digits[i + 1], "] ">> \o cur.results[i].text

C19_Witness ==
    /\ pc = "generating"
    /\ cur.search_calls = 1
    /\ Len(cur.results) = 3
    /\ cur.results[1].text # cur.results[2].text

\* C20: a chat call with use_context=False makes no embedding call and no
\* store search and has no context; its prompt is built from memory and the
\* question alone.
C20_NoRetrievalWithoutContext ==
    (InChat /\ ~cur.use_context) =>
        /\ pc # "retrieving"
        /\ cur.embed_calls = 0
        /\ cur.search_calls = 0
        /\ cur.context = <<>>
        /\ ~cur.embed_failed /\ ~cur.search_failed
        /\ cur.llm_calls = 1 =>
              cur.prompt = <<"Previous Conversation:\n">> \o cur.chat_history
                           \o <<"\n\nCurrent Question: ">> \o cur.question
                           \o <<"\n\nAnswer:">>

C20_Witness ==
    /\ ChatReturned
    /\ ~cur.use_context
    /\ ret.kind = "answer"
    /\ Cardinality(DOMAIN index) = 3

\* C21: only an ingest that reached the store's upsert without a failure
\* changes the index; chat, search_similar and clear_history (and get_history,
\* which is a pure reading of memory) leave every record as it was.  No step
\* removes a record id, and the id of every chunk text ever written by an
\* ingest is still present afterwards.
C21_OnlyIngestGrowsIndex ==
    [][/\ DOMAIN index \subseteq DOMAIN index'
       /\ \A t \in ingested' : TextHash(t) \in DOMAIN index'
       /\ index' # index =>
             /\ ret'.op = "process_file_upload"
             /\ ret'.kind = "ok"
             /\ ing'.upsert_calls = 1
             /\ ~ing'.store_failed]_vars

C21_Witness ==
    /\ ret.op = "clear_history"
    /\ Cardinality(DOMAIN index) >= 2
    /\ Cardinality(ingested) > Cardinality(DOMAIN index)
    /\ Len(before) = 2

====
